---- MODULE Spec2Model ----
(***************************************************************************)
(* Model of the SizedOnDisk derive macro (src/lib.rs).                     *)
(*                                                                         *)
(* The compiler hands derive_disk_size one parsed declaration at a time.   *)
(* One invocation runs lines 11-33 in order: take the name, augment the    *)
(* generics, build the sum expression (or panic on an enum/union), quote   *)
(* the impl block and return it.  Token streams are modelled structurally: *)
(* the sum expression is the sequence <<0, term, term, ...>>, each term    *)
(* recording the span it was quoted with and the member of self it reads.  *)
(***************************************************************************)
EXTENDS Integers, Sequences, FiniteSets, TLC

\* ------------------------------------------------------------- bounds
MaxFields == 2
MaxAttrs == 1
MaxParams == 2
MaxSize == 1

\* ------------------------------------------------------ the input space
attribute_name == "dignore"
SizedOnDiskPath == "crate::types::SizedOnDisk"

None == <<>>
Some(x) == <<x>>

\* syn::Meta has three forms: `#[p]`, `#[p(...)]`, `#[p = ...]`.
MetaForms == {"Path", "List", "NameValue"}
Attribute(p, f) == [path |-> p, form |-> f]
IgnoreMarker == Attribute(attribute_name, "Path")
\* Attributes that occur on fields of the declarations handed to the macro.
FieldAttrs ==
    {Attribute(attribute_name, f) : f \in MetaForms} \cup {Attribute("skip", "Path")}
\* Every attribute that is not the bare marker.
OtherAttrs ==
    {Attribute(p, f) : p \in {attribute_name, "skip"}, f \in MetaForms} \ {IgnoreMarker}

SeqsUpTo(S, n) == UNION {[1..k -> S] : k \in 0..n}

FieldNames == <<"x", "y", "z", "w", "u">>
ParamNames == <<"T", "U", "V", "W", "X">>
TypeNames == {"Point", "Either"}
NoIdent == ""

\* The span of the i-th field of a declaration: its place in the source.
SpanBase == 100
SpanOf(i) == SpanBase + i
CallSite == 0

\* A parsed syn::Field.  ident is NoIdent for a tuple field.
Field(i, id, as, ty) == [ident |-> id, attrs |-> as, ty |-> ty, span |-> SpanOf(i)]

NamedLists ==
    UNION {{[i \in 1..n |-> Field(i, FieldNames[i], as[i], "u32")] :
              as \in [1..n -> SeqsUpTo(FieldAttrs, MaxAttrs)]} : n \in 0..MaxFields}
UnnamedLists ==
    UNION {{[i \in 1..n |-> Field(i, NoIdent, as[i], "u32")] :
              as \in [1..n -> SeqsUpTo(FieldAttrs, MaxAttrs)]} : n \in 0..MaxFields}

\* syn::Data: a struct with one of the three syn::Fields shapes, an enum or a union.
Data(k, s, l) == [kind |-> k, shape |-> s, fields |-> l]
UnitData == Data("Struct", "Unit", <<>>)
EnumData == Data("Enum", "None", <<>>)
UnionData == Data("Union", "None", <<>>)
StructDatas ==
    {Data("Struct", "Named", l) : l \in NamedLists}
    \cup {Data("Struct", "Unnamed", l) : l \in UnnamedLists}
    \cup {UnitData}

\* syn::GenericParam: a type, lifetime or const parameter with its bounds.
ParamKinds ==
    {[kind |-> "Type", bounds |-> <<>>], [kind |-> "Type", bounds |-> <<"Clone">>],
     [kind |-> "Lifetime", bounds |-> <<>>], [kind |-> "Const", bounds |-> <<>>]}
ParamLists ==
    UNION {{[i \in 1..n |-> [kind |-> ks[i].kind, ident |-> ParamNames[i],
                             bounds |-> ks[i].bounds]] :
              ks \in [1..n -> ParamKinds]} : n \in 0..MaxParams}
WhereClauses == {None, Some("where Self: Sized")}
AllGenerics == {[params |-> ps, where_clause |-> w] : ps \in ParamLists, w \in WhereClauses}
NoGenerics == [params |-> <<>>, where_clause |-> None]

\* Field data used with the full range of generics: one field whose type is the
\* first parameter, one field of a concrete type, and the field-less kinds.
SmallDatas ==
    {UnitData, EnumData, UnionData,
     Data("Struct", "Named", <<Field(1, FieldNames[1], <<>>, ParamNames[1])>>),
     Data("Struct", "Unnamed", <<Field(1, NoIdent, <<>>, "u32")>>)}

DeriveInput(n, g, d) == [ident |-> n, generics |-> g, data |-> d]
Decls ==
    {DeriveInput("Point", NoGenerics, d) : d \in StructDatas}
    \cup {DeriveInput(n, g, d) : n \in TypeNames, g \in AllGenerics, d \in SmallDatas}

\* --------------------------------------------------------------- state
VARIABLES pc, input, name, generics, sum, output, panic
vars == <<pc, input, name, generics, sum, output, panic>>

\* ------------------------------------------------- add_trait_bounds
\* Variant: the bound replaces the parameter's own bounds instead of joining them.
push_replacing(v, x) == <<x>>
push(v, x) == Append(v, x)

add_trait_bounds(g) ==
    [g EXCEPT !.params =
        [i \in 1..Len(g.params) |->
            IF g.params[i].kind = "Type"
            THEN [g.params[i] EXCEPT !.bounds = push(@, SizedOnDiskPath)]
            ELSE g.params[i]]]

\* --------------------------------------------------- disk_size_sum
\* Variant: the attribute's path is taken whatever its form (meta.path()).
require_path_any_form(a) == Some(a.path)
\* Variant: any bare attribute counts, its name is not compared.
is_ident_any(p, id) == TRUE
\* Variant: the filter is missing, every field is kept.
is_kept_all(f) == TRUE
\* a.meta.require_path_only().ok(): Some(path) for a bare `#[path]`, else None.
require_path_only(a) == IF a.form = "Path" THEN Some(a.path) ELSE None
is_ident(p, id) == p = id

\* The closure handed to .filter on the named fields.
is_kept(f) ==
    ~ \E k \in 1..Len(f.attrs) :
        LET p == require_path_only(f.attrs[k])
        IN  p # None /\ is_ident(p[1], attribute_name)

Term(span, member) == [call |-> SizedOnDiskPath \o "::size", span |-> span, member |-> member]
Zero == [call |-> "0", span |-> CallSite, member |-> NoIdent]

\* Variant: quote! in place of quote_spanned!, the term gets the call-site span.
named_term_unspanned(f) == Term(CallSite, f.ident)
named_term(f) == Term(f.span, f.ident)
Index(i) == ToString(i)
unnamed_term(i, f) == Term(f.span, Index(i))

named_recurse(fields) ==
    LET kept == SelectSeq(fields, is_kept)
    IN  [j \in 1..Len(kept) |-> named_term(kept[j])]
\* enumerate() counts from zero.
unnamed_recurse(fields) ==
    [j \in 1..Len(fields) |-> unnamed_term(j - 1, fields[j])]

zero_plus(recurse) == <<Zero>> \o recurse

\* Variant: todo!() in place of unimplemented!().
todo == <<"not", "yet", "implemented">>
unimplemented == <<"not", "implemented">>

Ok(tokens) == [tag |-> "Ok", tokens |-> tokens, message |-> <<>>]
Panic(msg) == [tag |-> "Panic", tokens |-> <<>>, message |-> msg]

\* Variant: an enum or union silently gets the zero-size body.
disk_size_sum_lenient(data) ==
    IF data.kind = "Struct"
    THEN CASE data.shape = "Named" -> Ok(zero_plus(named_recurse(data.fields)))
           [] data.shape = "Unnamed" -> Ok(zero_plus(unnamed_recurse(data.fields)))
           [] OTHER -> Ok(<<Zero>>)
    ELSE Ok(<<Zero>>)

disk_size_sum(data) ==
    IF data.kind = "Struct"
    THEN CASE data.shape = "Named" -> Ok(zero_plus(named_recurse(data.fields)))
           [] data.shape = "Unnamed" -> Ok(zero_plus(unnamed_recurse(data.fields)))
           [] OTHER -> Ok(<<Zero>>)
    ELSE Panic(unimplemented)

\* -------------------------------------------------- the quoted impl block
split_for_impl(g) ==
    [impl_generics |-> g.params,
     ty_generics |-> [i \in 1..Len(g.params) |-> g.params[i].ident],
     where_clause |-> g.where_clause]

expanded(n, g, s) ==
    LET parts == split_for_impl(g)
    IN  [trait |-> SizedOnDiskPath, impl_generics |-> parts.impl_generics, name |-> n,
         ty_generics |-> parts.ty_generics, where_clause |-> parts.where_clause,
         fn |-> "size", body |-> s]

\* Running the generated `fn size(&self)` on a value whose member m has size v[m].
RECURSIVE Eval(_, _)
Eval(body, v) ==
    IF body = <<>> THEN 0
    ELSE (IF Head(body).call = "0" THEN 0 ELSE v[Head(body).member]) + Eval(Tail(body), v)

\* ------------------------------------------------------------- actions
Init ==
    /\ pc = "idle"
    /\ input = None
    /\ name = None
    /\ generics = None
    /\ sum = None
    /\ output = None
    /\ panic = None

\* The compiler calls the derive on a declaration; lines 11-14.
Invoke(d) ==
    /\ pc = "idle"
    /\ pc' = "parsed"
    /\ input' = Some(d)
    /\ name' = Some(d.ident)
    /\ generics' = None
    /\ sum' = None
    /\ output' = None
    /\ panic' = None

\* Lines 17-18.
AddTraitBounds ==
    /\ pc = "parsed"
    /\ generics' = Some(add_trait_bounds(input[1].generics))
    /\ pc' = "bounded"
    /\ UNCHANGED <<input, name, sum, output, panic>>

\* Line 21, disk_size_sum returning.
DiskSizeSum ==
    /\ pc = "bounded"
    /\ LET r == disk_size_sum(input[1].data)
       IN  /\ r.tag = "Ok"
           /\ sum' = Some(r.tokens)
    /\ pc' = "summed"
    /\ UNCHANGED <<input, name, generics, output, panic>>

\* Line 21, disk_size_sum panicking at line 101: the invocation unwinds.
Unimplemented ==
    /\ pc = "bounded"
    /\ LET r == disk_size_sum(input[1].data)
       IN  /\ r.tag = "Panic"
           /\ panic' = Some(r.message)
    /\ pc' = "panicked"
    /\ UNCHANGED <<input, name, generics, sum, output>>

\* Lines 23-33.
Emit ==
    /\ pc = "summed"
    /\ output' = Some(expanded(name[1], generics[1], sum[1]))
    /\ pc' = "done"
    /\ UNCHANGED <<input, name, generics, sum, panic>>

\* The invocation is over; nothing of it is kept for the next one (line 9:
\* every call starts from its argument alone).
Finish ==
    /\ pc \in {"done", "panicked"}
    /\ pc' = "idle"
    /\ input' = None
    /\ name' = None
    /\ generics' = None
    /\ sum' = None
    /\ output' = None
    /\ panic' = None

Next ==
    \/ \E d \in Decls : Invoke(d)
    \/ AddTraitBounds
    \/ DiskSizeSum
    \/ Unimplemented
    \/ Emit
    \/ Finish

Spec == Init /\ [][Next]_vars

\* ------------------------------------------------- vocabulary of the properties
In == input[1]
Out == output[1]
Fields == In.data.fields
Range(q) == {q[i] : i \in 1..Len(q)}

\* The field carries the bare ignore marker `#[dignore]`.
CarriesIgnore(f) == \E k \in 1..Len(f.attrs) : f.attrs[k] = IgnoreMarker
\* How `self` is read for the i-th declared field: by identifier, or by zero-based index.
Member(data, i) ==
    IF data.shape = "Named" THEN data.fields[i].ident ELSE ToString(i - 1)
Members(data) == {Member(data, i) : i \in 1..Len(data.fields)}
\* The values of the declared type, as the size each member reports.
Values(data) == [Members(data) -> 0..MaxSize]
\* Positions of the fields without the marker, in declaration order.
RECURSIVE EligibleFrom(_, _)
EligibleFrom(data, i) ==
    IF i > Len(data.fields) THEN <<>>
    ELSE (IF CarriesIgnore(data.fields[i]) THEN <<>> ELSE <<i>>) \o EligibleFrom(data, i + 1)
Eligible(data) == EligibleFrom(data, 1)
RECURSIVE SumSizes(_, _, _)
SumSizes(data, v, idx) ==
    IF idx = <<>> THEN 0 ELSE v[Member(data, Head(idx))] + SumSizes(data, v, Tail(idx))
\* The terms after the leading zero.
Terms(body) == Tail(body)
\* The body has one term per eligible field, in declaration order, reading that field.
OneTermPerEligible(data, body) ==
    LET e == Eligible(data)
    IN  /\ Len(Terms(body)) = Len(e)
        /\ \A j \in 1..Len(e) : Terms(body)[j].member = Member(data, e[j])
Perms(n) == {p \in [1..n -> 1..n] : \A a, b \in 1..n : p[a] = p[b] => a = b}
\* The same fields written in another order in the source.
Reordered(data, p) ==
    [data EXCEPT !.fields =
        [i \in 1..Len(data.fields) |->
            Field(i, data.fields[p[i]].ident, data.fields[p[i]].attrs, data.fields[p[i]].ty)]]

\* C1: for a struct with named fields the generated size function returns the
\* sum of the sizes of exactly the fields without the ignore marker, one term
\* per such field in declaration order, none for an ignored field wherever it
\* stands, and the result is the same for every order of the source fields.
C1_NamedSum ==
    (pc = "done" /\ In.data.shape = "Named") =>
        /\ OneTermPerEligible(In.data, Out.body)
        /\ \A v \in Values(In.data) :
            /\ Eval(Out.body, v) = SumSizes(In.data, v, Eligible(In.data))
            /\ \A p \in Perms(Len(Fields)) :
                 Eval(disk_size_sum(Reordered(In.data, p)).tokens, v) = Eval(Out.body, v)
C1_Witness ==
    /\ pc = "done"
    /\ In.data.shape = "Named"
    /\ Len(Fields) = 2
    /\ CarriesIgnore(Fields[1])
    /\ ~CarriesIgnore(Fields[2])
    /\ Len(Out.body) = 2

\* C2: for a tuple struct the generated size function is the sum over the
\* fields without the ignore marker, in declaration order, each read by its
\* zero-based index in the original declaration; a marked field is left out.
C2_PositionalSum ==
    (pc = "done" /\ In.data.shape = "Unnamed") =>
        /\ OneTermPerEligible(In.data, Out.body)
        /\ \A v \in Values(In.data) :
             Eval(Out.body, v) = SumSizes(In.data, v, Eligible(In.data))

\* C3: a struct of any shape with no eligible field (no field, or every field
\* marked) gets the zero term alone and a size function returning 0 on every
\* value; every other generated expression still begins with the zero term.
C3_ZeroWhenNoEligible ==
    pc = "done" =>
        /\ Head(Out.body) = Zero
        /\ Eligible(In.data) = <<>> =>
             /\ Out.body = <<Zero>>
             /\ \A v \in Values(In.data) : Eval(Out.body, v) = 0

\* C4: add_trait_bounds keeps the parameters and their order, gives exactly the
\* type parameters the SizedOnDisk bound after the bounds they already had,
\* leaves lifetime and const parameters and the where-clause as they were,
\* whether or not a field mentions the parameter; the impl block carries them.
C4_Bounds ==
    generics # None =>
        LET g == In.generics
            h == generics[1]
        IN  /\ Len(h.params) = Len(g.params)
            /\ h.where_clause = g.where_clause
            /\ \A i \in 1..Len(g.params) :
                 /\ h.params[i].ident = g.params[i].ident
                 /\ h.params[i].kind = g.params[i].kind
                 /\ g.params[i].kind = "Type" =>
                      h.params[i].bounds = g.params[i].bounds \o <<SizedOnDiskPath>>
                 /\ g.params[i].kind # "Type" => h.params[i] = g.params[i]
            /\ {i \in 1..Len(h.params) : SizedOnDiskPath \in Range(h.params[i].bounds)}
                 = {i \in 1..Len(g.params) : g.params[i].kind = "Type"}
            /\ pc = "done" =>
                 /\ Out.impl_generics = h.params
                 /\ Out.where_clause = g.where_clause
                 /\ Out.ty_generics = [i \in 1..Len(g.params) |-> g.params[i].ident]
C4_Witness ==
    /\ pc = "done"
    /\ In.data = UnitData
    /\ Len(In.generics.params) = 2
    /\ In.generics.params[1] = [kind |-> "Type", ident |-> ParamNames[1], bounds |-> <<"Clone">>]
    /\ In.generics.params[2].kind = "Lifetime"
    /\ In.generics.where_clause # None
    /\ Out.impl_generics[1].bounds = <<"Clone", SizedOnDiskPath>>

\* C5: on an enum or union the invocation can only panic and hands back
\* nothing; an artifact exists only once a struct's invocation is complete, and
\* it is then the whole impl block: there is no partial or zero-size output.
C5_AllOrNothing ==
    /\ pc # "done" => output = None
    /\ pc = "done" =>
         /\ In.data.kind = "Struct"
         /\ Out = expanded(In.ident, generics[1], sum[1])
         /\ Len(Out.body) >= 1
         /\ panic = None
    /\ pc = "panicked" => In.data.kind \in {"Enum", "Union"}
    /\ (input # None /\ In.data.kind \in {"Enum", "Union"}) =>
         /\ pc \in {"parsed", "bounded", "panicked"}
         /\ sum = None
         /\ pc = "bounded" => (ENABLED Unimplemented /\ ~ENABLED DiskSizeSum)
C5_Witness ==
    /\ pc = "panicked"
    /\ In.data.kind = "Enum"
    /\ output = None

\* C6 as stated: the failure on an enum or union is reported with a message
\* that names the type being derived.
C6_MessageNamesType ==
    pc = "panicked" => name[1] \in Range(panic[1])
\* C6 as amended: the failure is raised during generation, before anything is
\* emitted, with the fixed message "not implemented", the same for every type
\* and not carrying the type's name.
C6_FixedMessage ==
    pc = "panicked" =>
        /\ panic[1] = <<"not", "implemented">>
        /\ name[1] \notin Range(panic[1])
        /\ output = None
C6_Witness ==
    /\ pc = "panicked"
    /\ In.data.kind = "Union"
    /\ name[1] = "Either"
    /\ panic # None

\* The whole expansion of a declaration, lines 11-33 composed.
Expand(d) ==
    LET r == disk_size_sum(d.data)
    IN  IF r.tag = "Ok"
        THEN Some(expanded(d.ident, add_trait_bounds(d.generics), r.tokens))
        ELSE None
InsertAt(q, k, x) == SubSeq(q, 1, k) \o <<x>> \o SubSeq(q, k + 1, Len(q))
RemoveAt(q, k) == SubSeq(q, 1, k - 1) \o SubSeq(q, k + 1, Len(q))
WithAttrs(d, i, as) == [d EXCEPT !.data.fields[i].attrs = as]

\* C7: only the bare ignore marker is interpreted: putting any other attribute
\* on any field, or taking one away, leaves the artifact as it was and never
\* makes generation fail; a field without attributes always has its term; the
\* terms follow the fields they come from in declaration order.
C7_OtherAttrsInert ==
    pc = "done" =>
        /\ \A i \in 1..Len(Fields) :
             /\ \A a \in OtherAttrs : \A k \in 0..Len(Fields[i].attrs) :
                  Expand(WithAttrs(In, i, InsertAt(Fields[i].attrs, k, a))) = output
             /\ \A k \in 1..Len(Fields[i].attrs) :
                  Fields[i].attrs[k] # IgnoreMarker =>
                      Expand(WithAttrs(In, i, RemoveAt(Fields[i].attrs, k))) = output
             /\ Fields[i].attrs = <<>> =>
                  \E j \in 1..Len(Terms(Out.body)) : Terms(Out.body)[j].span = Fields[i].span
        /\ \A j \in 1..Len(Terms(Out.body)) :
             /\ \E i \in 1..Len(Fields) : Terms(Out.body)[j].span = Fields[i].span
             /\ \A k \in 1..Len(Terms(Out.body)) :
                  j < k => Terms(Out.body)[j].span < Terms(Out.body)[k].span
C7_Witness ==
    /\ pc = "done"
    /\ In.data.shape = "Named"
    /\ Len(Fields) = 2
    /\ Fields[1].attrs = <<Attribute("skip", "Path")>>
    /\ Fields[2].attrs = <<IgnoreMarker>>
    /\ Len(Out.body) = 2

HasArgumentedIgnore(f) ==
    \E k \in 1..Len(f.attrs) :
        f.attrs[k].path = attribute_name /\ f.attrs[k].form \in {"List", "NameValue"}
HasTerm(body, m) == \E j \in 1..Len(Terms(body)) : Terms(body)[j].member = m

\* C10: a named field is left out only if it has the bare `#[dignore]`; one with
\* `#[dignore(...)]` or `#[dignore = ...]` and no bare marker keeps its term,
\* and generation of such a declaration does not fail.
C10_OnlyBareMarkerIgnores ==
    (input # None /\ In.data.shape = "Named") =>
        /\ pc # "panicked"
        /\ pc = "done" =>
             \A i \in 1..Len(Fields) :
                 /\ (HasArgumentedIgnore(Fields[i]) /\ ~CarriesIgnore(Fields[i]))
                      => HasTerm(Out.body, Fields[i].ident)
                 /\ ~HasTerm(Out.body, Fields[i].ident) => CarriesIgnore(Fields[i])
C10_Witness ==
    /\ pc = "done"
    /\ In.data.shape = "Named"
    /\ Len(Fields) = 2
    /\ Fields[1].attrs = <<Attribute(attribute_name, "List")>>
    /\ Fields[2].attrs = <<Attribute(attribute_name, "NameValue")>>
    /\ Len(Out.body) = 3
====
